---- MODULE Spec2Model ----
(***************************************************************************)
(* The NDJSON relay of server.js and server-activity.js: a WebSocket       *)
(* message starts an upstream generation request; the data / end / error   *)
(* handlers of the upstream body re-split the text on newlines, decode     *)
(* each line and send frames to the client's socket.                       *)
(*                                                                         *)
(* Upstream text is a sequence of symbols.  "NL" is the newline, "SP" a    *)
(* whitespace character, and the other symbols are pieces of JSON text:    *)
(*   "A"   {"response":"a"}                                                *)
(*   "D"   {"done":true}                                                   *)
(*   "AD"  {"response":"a","done":true}                                    *)
(*   "Lh"  {"resp            (the first half of a record)                  *)
(*   "Rh"  onse":"b"}        (the second half of that record)              *)
(* A chunk is any sequence of symbols, so a chunk boundary may fall        *)
(* anywhere, between the two halves of a record included.                  *)
(***************************************************************************)
EXTENDS Naturals, Sequences, FiniteSets, TLC

VARIABLES
    prog,      \* which program runs: server.js or server-activity.js
    owner,     \* owner[r]: the client socket whose message started request r
    pc,        \* pc[r]: idle, fetching (await fetch), streaming, ended, errored, failed
    buffer,    \* buffer[r]: the `let buffer` of request r's handlers
    received,  \* received[r]: all the text request r's body has delivered
    trace,     \* trace[r]: what request r's handlers did, in order (decode,
               \* send, log and close events, each tagged with its handler)
    wsOpen,    \* wsOpen[c]: client c's socket is in the OPEN state
    clients,          \* server-activity.js `clients`: id -> [name, ready (readyState === 1)]
    clientIdCounter,  \* server-activity.js `clientIdCounter`
    inbox,            \* inbox[id]: the frames connection id has received, in order
    regEvents,        \* number of registry events so far
    chatSessions,         \* CodeCompleter.js `chatSessions`: sessionId -> session object
    sessionObjs,          \* sessionObjs[o]: `messages` of session object o
    toolsSupportChecked,  \* CodeCompleter.js `toolsSupportChecked`
    toolsSupportCache,    \* CodeCompleter.js `toolsSupportCache`
    post,                 \* post[q]: chat request q: its position and its locals
    out,                  \* the HTTP response sent last
    httpEvents,           \* number of HTTP requests received so far
    agentProg,            \* which agent runs: ollama-agent.ts or unnamed/part_002
    agent,                \* OllamaLangChainAgent `agent`: unset or the AgentExecutor
    initFailed,           \* the catch of initializeAgent was taken
    conversationHistory,  \* OllamaLangChainAgent `conversationHistory`
    memory,               \* the messages held by the BufferMemory `memory`
    apc,                  \* the CLI's position: off, new, ready, waiting (in a chat)
    call,                 \* the chat in flight or settled last: path and model input
    chats,                \* number of chats started so far
    ret,                  \* what the chat settled last returned or printed
    lastOp                \* the method of the agent that ran last

relayVars == <<prog, owner, pc, buffer, received, trace, wsOpen>>

regVars == <<clients, clientIdCounter, inbox, regEvents>>

sessVars == <<chatSessions, sessionObjs, toolsSupportChecked, toolsSupportCache,
              post, out, httpEvents>>

agentVars == <<agentProg, agent, initFailed, conversationHistory, memory,
               apc, call, chats, ret, lastOp>>

vars == <<prog, owner, pc, buffer, received, trace, wsOpen,
          clients, clientIdCounter, inbox, regEvents,
          chatSessions, sessionObjs, toolsSupportChecked, toolsSupportCache,
          post, out, httpEvents,
          agentProg, agent, initFailed, conversationHistory, memory,
          apc, call, chats, ret, lastOp>>

\* Bound: the number of symbols the upstream delivers to the single request of Spec.
MaxText == 4

\* Bound: the number of symbols the upstreams deliver to the two requests of
\* SpecConc together.
MaxConcText == 3

\* Bound: chats the CLI of the LangChain agent starts.
MaxChats == 3

\* The two versions of the LangChain agent.
AgentProgs == {"ollama-agent.ts", "part_002"}

\* new SystemMessage(...), pushed by the constructor.  The field k of a message
\* is the number of the chat that made it (0: the constructor).
SystemMessage == [role |-> "system", content |-> "SYSTEM_PROMPT", k |-> 0, context |-> <<>>]

\* No chat yet.
NoCall == [k |-> 0, message |-> "", streaming |-> FALSE, path |-> "none", input |-> <<>>]

\* Chat requests (POST /chat/:sessionId, GET /chat/:sessionId/stream).
Posts == {1, 2}

\* Bound: HTTP requests of any kind received by CodeCompleter.js.
MaxHttp == 3

\* Bound: the number of symbols the upstream delivers to the request of SpecLive.
MaxLiveText == 2

\* Bound: the number of symbols the upstream delivers to the request of SpecGone.
MaxGoneText == 3

Char == {"NL", "SP", "A", "D", "AD", "Lh", "Rh"}

\* Whitespace, for String.prototype.trim and for JSON.parse alike.
WS == {"NL", "SP"}

\* The two programs that hold the relay.
Progs == {"server.js", "server-activity.js"}

\* Invocations of the message handler (each owns one `let buffer`).
Requests == {1, 2}

\* Client sockets.
Clients == {"c1", "c2"}

NoClient == "none"

-----------------------------------------------------------------------------
(* Text helpers *)

\* s.split('\n'): the segments between newlines, the one after the last
\* newline included (it is empty when s ends with a newline).
RECURSIVE SplitFrom(_, _)
SplitFrom(s, cur) ==
    IF s = <<>> THEN <<cur>>
    ELSE IF Head(s) = "NL" THEN <<cur>> \o SplitFrom(Tail(s), <<>>)
    ELSE SplitFrom(Tail(s), Append(cur, Head(s)))

Split(s) == SplitFrom(s, <<>>)

\* Mutant of LastSegment: the incomplete tail is thrown away.
LastSegmentDropped(lines) == <<>>

\* lines.pop() || '' : the value popped, the segment after the last newline.
LastSegment(lines) == lines[Len(lines)]

\* Mutant of Front: the pop is forgotten and the last segment is processed too.
FrontAll(lines) == lines

\* lines after lines.pop(): every segment but the last.
Front(lines) == SubSeq(lines, 1, Len(lines) - 1)

\* Mutant of IsBlank: the test is on the text, not on the trimmed text.
IsBlankEmptyOnly(line) == line = <<>>

\* !line.trim() : the line is empty or all whitespace.
IsBlank(line) == \A i \in 1..Len(line) : line[i] \in WS

RECURSIVE StripL(_)
StripL(s) == IF s # <<>> /\ Head(s) \in WS THEN StripL(Tail(s)) ELSE s

RECURSIVE StripR(_)
StripR(s) ==
    IF s # <<>> /\ s[Len(s)] \in WS THEN StripR(SubSeq(s, 1, Len(s) - 1)) ELSE s

\* JSON.parse(text): whitespace around the value is allowed; the value must be
\* exactly one JSON text.  ok = FALSE stands for the SyntaxError thrown.
\* response = "" stands for a missing (falsy) response field.
Parse(s) ==
    LET c == StripR(StripL(s)) IN
    IF c = <<"A">> THEN [ok |-> TRUE, response |-> "a", done |-> FALSE]
    ELSE IF c = <<"D">> THEN [ok |-> TRUE, response |-> "", done |-> TRUE]
    ELSE IF c = <<"AD">> THEN [ok |-> TRUE, response |-> "a", done |-> TRUE]
    ELSE IF c = <<"Lh", "Rh">> THEN [ok |-> TRUE, response |-> "b", done |-> FALSE]
    ELSE [ok |-> FALSE, response |-> "", done |-> FALSE]

-----------------------------------------------------------------------------
(* Frames and the events a handler run leaves in the request's trace *)

\* server.js: the token text itself; server-activity.js: {type:'stream',content}.
Tok(v) == [kind |-> "token", content |-> v]

\* server.js: "\n--- generation complete ---\n"; server-activity.js: {type:'stream_end'}.
Complete == [kind |-> "complete", content |-> ""]

\* server.js: a text starting with the cross mark; server-activity.js: {type:'error',message}.
Err(m) == [kind |-> "error", content |-> m]

EvDecode(h, rec) == [ev |-> "decode", h |-> h, rec |-> rec]
EvSend(h, f, d) == [ev |-> "send", h |-> h, frame |-> f, delivered |-> d]
EvLog(h) == [ev |-> "log", h |-> h]
EvClose(h) == [ev |-> "close", h |-> h]

\* The state of one handler run: the events so far, whether the socket is
\* open, whether the handler has returned, and which handler it is.
Acc0(h, open) == [tr |-> <<>>, open |-> open, stop |-> FALSE, h |-> h]

\* ws.send(frame): transmitted when the socket is OPEN; on a closing or closed
\* socket the ws library drops the data without throwing.
Send(acc, f) == [acc EXCEPT !.tr = Append(@, EvSend(acc.h, f, acc.open))]

\* Mutant of Close: the socket stays OPEN until the closing handshake ends.
CloseStillOpen(acc) == [acc EXCEPT !.tr = Append(@, EvClose(acc.h))]

\* ws.close(): the socket leaves the OPEN state at once.
Close(acc) == [acc EXCEPT !.tr = Append(@, EvClose(acc.h)), !.open = FALSE]

\* const data = JSON.parse(line) returned a value.
Decoded(acc, rec) == [acc EXCEPT !.tr = Append(@, EvDecode(acc.h, rec))]

-----------------------------------------------------------------------------
(* The data handler *)

\* if (data.done) { ... }: server.js sends the marker, closes and returns from
\* the handler; server-activity.js sends stream_end and goes on with the loop.
OnDone(p, acc) ==
    IF p = "server.js"
    THEN [Close(Send(acc, Complete)) EXCEPT !.stop = TRUE]
    ELSE Send(acc, Complete)

\* Mutant of Emit: done is handled before response.
EmitDoneFirst(p, acc, rec) ==
    LET a1 == IF rec.done THEN Send(acc, Complete) ELSE acc
        a2 == IF rec.response # "" THEN Send(a1, Tok(rec.response)) ELSE a1
    IN  IF rec.done /\ p = "server.js" THEN [Close(a2) EXCEPT !.stop = TRUE] ELSE a2

\* if (data.response) send the token; if (data.done) ... : two independent ifs.
Emit(p, acc, rec) ==
    LET a1 == IF rec.response # "" THEN Send(acc, Tok(rec.response)) ELSE acc
    IN  IF rec.done THEN OnDone(p, a1) ELSE a1

\* Mutant of OnParseError: the failure leaves the loop.
OnParseErrorAbort(acc) == [acc EXCEPT !.tr = Append(@, EvLog(acc.h)), !.stop = TRUE]

\* catch (parseErr) { console.error("Bad JSON from Ollama:", line) }
OnParseError(acc) == [acc EXCEPT !.tr = Append(@, EvLog(acc.h))]

\* One turn of `for (const line of lines)`.
ProcessLine(p, acc, line) ==
    IF acc.stop \/ IsBlank(line) THEN acc
    ELSE LET rec == Parse(line) IN
         IF rec.ok THEN Emit(p, Decoded(acc, rec), rec) ELSE OnParseError(acc)

RECURSIVE RunLines(_, _, _)
RunLines(p, acc, lines) ==
    IF lines = <<>> THEN acc
    ELSE RunLines(p, ProcessLine(p, acc, Head(lines)), Tail(lines))

\* Mutant of DataHandler: `buffer = chunk.toString()` in place of `buffer +=`.
DataHandlerNoAppend(p, buf, open, chunk) ==
    LET lines == Split(chunk)
        res == RunLines(p, Acc0("data", open), Front(lines))
    IN  [buffer |-> LastSegment(lines), tr |-> res.tr, open |-> res.open]

\* response.body.on('data', chunk => ...): the new buffer, the events of the
\* run and the socket's state after it.
DataHandler(p, buf, open, chunk) ==
    LET lines == Split(buf \o chunk)
        res == RunLines(p, Acc0("data", open), Front(lines))
    IN  [buffer |-> LastSegment(lines), tr |-> res.tr, open |-> res.open]

-----------------------------------------------------------------------------
(* The end and error handlers *)

\* Mutant of EndOnParseError: the premature end is reported to the client.
EndOnParseErrorTold(acc) ==
    Send([acc EXCEPT !.tr = Append(@, EvLog(acc.h))], Err("Bad final JSON"))

\* catch (parseErr) { console.error(...) } of the end handler.
EndOnParseError(acc) == [acc EXCEPT !.tr = Append(@, EvLog(acc.h))]

\* The end handler looks at data.done only.
EndEmit(p, acc, rec) ==
    IF rec.done
    THEN IF p = "server.js" THEN Close(Send(acc, Complete)) ELSE Send(acc, Complete)
    ELSE acc

\* response.body.on('end', () => ...)
EndHandler(p, buf, open) ==
    LET acc == Acc0("end", open) IN
    IF IsBlank(buf) THEN acc
    ELSE LET rec == Parse(buf) IN
         IF rec.ok THEN EndEmit(p, Decoded(acc, rec), rec) ELSE EndOnParseError(acc)

\* Mutant of ErrorHandler: the error ends the request like a completion.
ErrorHandlerAsComplete(p, open) ==
    LET a == Send(Acc0("error", open), Complete) IN
    IF p = "server.js" THEN Close(a) ELSE a

\* response.body.on('error', err => ...)
ErrorHandler(p, open) ==
    LET a == Send(Acc0("error", open), Err("Stream error")) IN
    IF p = "server.js" THEN Close(a) ELSE a

\* if (!response.ok || !response.body) { send error; (server.js) close; return }
\* and the catch around the whole message handler.
FailHandler(p, open, why) ==
    LET a == Send(Acc0("message", open), Err(why)) IN
    IF p = "server.js" THEN Close(a) ELSE a

-----------------------------------------------------------------------------
(* State machine *)

\* Mutant of BufferCell: one buffer for the whole process.
BufferCellShared(r) == 1

\* `let buffer = ''` is declared inside the message handler: one per request.
BufferCell(r) == r

Total == Len(received[1]) + Len(received[2])

\* The relay before any message.
InitRelay ==
    /\ prog \in Progs
    /\ owner = [r \in Requests |-> NoClient]
    /\ pc = [r \in Requests |-> "idle"]
    /\ buffer = [r \in Requests |-> <<>>]
    /\ received = [r \in Requests |-> <<>>]
    /\ trace = [r \in Requests |-> <<>>]
    /\ wsOpen = [c \in Clients |-> TRUE]

\* server-activity.js: const clients = new Map(); let clientIdCounter = 0;
InitRegistry ==
    /\ clients = <<>>
    /\ clientIdCounter = 0
    /\ inbox = <<>>
    /\ regEvents = 0

\* CodeCompleter.js at start: no session, tool support not probed (the cache,
\* null in the source, is read only once it has been set).
InitSessions ==
    /\ chatSessions = <<>>
    /\ sessionObjs = <<>>
    /\ toolsSupportChecked = FALSE
    /\ toolsSupportCache = FALSE
    /\ post = [q \in Posts |->
                [pc |-> "idle", sid |-> "none", message |-> "", stream |-> FALSE,
                 session |-> 0, supportsTools |-> FALSE, sent |-> <<>>,
                 after |-> {}, status |-> 0, response |-> "", message_count |-> 0]]
    /\ out = [op |-> "none", sid |-> "none", status |-> 0, messages |-> <<>>]
    /\ httpEvents = 0

\* Before the CLI of the LangChain agent is started.
InitAgent ==
    /\ agentProg = "none"
    /\ agent = "unset"
    /\ initFailed = FALSE
    /\ conversationHistory = <<>>
    /\ memory = <<>>
    /\ apc = "off"
    /\ call = NoCall
    /\ chats = 0
    /\ ret = "none"
    /\ lastOp = "none"

Init == InitRelay /\ InitRegistry /\ InitSessions /\ InitAgent

\* ws.on("message"): the handler runs up to `await fetch(...)`.
Message(r, c) ==
    /\ pc[r] = "idle"
    /\ \A q \in Requests : q < r => pc[q] # "idle"
    /\ r = 1 => c = "c1"
    /\ wsOpen[c]
    /\ owner' = [owner EXCEPT ![r] = c]
    /\ pc' = [pc EXCEPT ![r] = "fetching"]
    /\ UNCHANGED <<prog, buffer, received, trace, wsOpen>>

\* fetch resolved with a streaming body: buffer = '' and the three handlers
\* are registered.
FetchOk(r) ==
    /\ pc[r] = "fetching"
    /\ pc' = [pc EXCEPT ![r] = "streaming"]
    /\ buffer' = [buffer EXCEPT ![BufferCell(r)] = <<>>]
    /\ UNCHANGED <<prog, owner, received, trace, wsOpen>>

\* fetch resolved with !response.ok, or threw.
FetchFail(r, why) ==
    /\ pc[r] = "fetching"
    /\ LET res == FailHandler(prog, wsOpen[owner[r]], why) IN
       /\ trace' = [trace EXCEPT ![r] = @ \o res.tr]
       /\ wsOpen' = [wsOpen EXCEPT ![owner[r]] = res.open]
    /\ pc' = [pc EXCEPT ![r] = "failed"]
    /\ UNCHANGED <<prog, owner, buffer, received>>

\* A 'data' event of request r's body.
Data(r, chunk) ==
    /\ pc[r] = "streaming"
    /\ LET res == DataHandler(prog, buffer[BufferCell(r)], wsOpen[owner[r]], chunk) IN
       /\ buffer' = [buffer EXCEPT ![BufferCell(r)] = res.buffer]
       /\ trace' = [trace EXCEPT ![r] = @ \o res.tr]
       /\ wsOpen' = [wsOpen EXCEPT ![owner[r]] = res.open]
    /\ received' = [received EXCEPT ![r] = @ \o chunk]
    /\ UNCHANGED <<prog, owner, pc>>

\* The 'end' event of request r's body.
End(r) ==
    /\ pc[r] = "streaming"
    /\ LET res == EndHandler(prog, buffer[BufferCell(r)], wsOpen[owner[r]]) IN
       /\ trace' = [trace EXCEPT ![r] = @ \o res.tr]
       /\ wsOpen' = [wsOpen EXCEPT ![owner[r]] = res.open]
    /\ pc' = [pc EXCEPT ![r] = "ended"]
    /\ UNCHANGED <<prog, owner, buffer, received>>

\* The 'error' event of request r's body.
Error(r) ==
    /\ pc[r] = "streaming"
    /\ LET res == ErrorHandler(prog, wsOpen[owner[r]]) IN
       /\ trace' = [trace EXCEPT ![r] = @ \o res.tr]
       /\ wsOpen' = [wsOpen EXCEPT ![owner[r]] = res.open]
    /\ pc' = [pc EXCEPT ![r] = "errored"]
    /\ UNCHANGED <<prog, owner, buffer, received>>

\* Every event the requests of R can take, with at most B symbols of upstream
\* text delivered in all.
Step(R, B) ==
    /\ UNCHANGED <<regVars, sessVars, agentVars>>
    /\ \/ \E r \in R, c \in Clients : Message(r, c)
       \/ \E r \in R : FetchOk(r)
       \/ \E r \in R, why \in {"Error connecting to Ollama", "Internal server error"} :
             FetchFail(r, why)
       \/ \E r \in R : \E n \in 0..(B - Total) :
             \E chunk \in [1..n -> Char] : Data(r, chunk)
       \/ \E r \in R : End(r)
       \/ \E r \in R : Error(r)

\* One request at a time on the server.
Next == Step({1}, MaxText)

Spec == Init /\ [][Next]_vars

\* One request under fairness: the event loop runs a handler whenever an event
\* is pending, so a request does not stay for ever in front of an event that
\* can happen.
NextLive == Step({1}, MaxLiveText)

SpecLive == Init /\ [][NextLive]_vars /\ WF_vars(NextLive)

\* Mutant of Gone: the socket of a client that has left still transmits.
GoneStillOpen(open) == open

\* The socket of a client whose 'close' event is being handled is CLOSED.
Gone(open) == FALSE

\* ws.on("close") for client c: the connection is over (server-activity.js
\* deletes the registry entry and tells the others, server.js logs).  The
\* handlers of c's requests in flight stay registered on their upstream
\* bodies and keep the socket they captured; each such request's trace gets
\* the event.
ClientClose(c) ==
    /\ wsOpen[c]
    /\ \E r \in Requests : owner[r] = c
    /\ wsOpen' = [wsOpen EXCEPT ![c] = Gone(@)]
    /\ trace' = [r \in Requests |->
                   IF owner[r] = c THEN Append(trace[r], EvClose("close")) ELSE trace[r]]
    /\ UNCHANGED <<prog, owner, pc, buffer, received>>
    /\ UNCHANGED <<regVars, sessVars, agentVars>>

\* One request, whose client may disconnect at any moment.
NextGone ==
    \/ Step({1}, MaxGoneText)
    \/ \E c \in Clients : ClientClose(c)

SpecGone == Init /\ [][NextGone]_vars

\* Two requests in flight, from the same client or from two clients.
NextConc == Step(Requests, MaxConcText)

SpecConc == Init /\ [][NextConc]_vars

-----------------------------------------------------------------------------
(* server-activity.js: the connection registry and the messages between clients *)

\* Bound: connections accepted.
MaxConns == 3

\* Bound: registry events (connections, messages, disconnections).
MaxRegEvents == 5

\* data.message / data.name missing from the client's JSON (undefined).
Undefined == "undefined"

\* `Client-${clientId}`
DefaultName(id) == [custom |-> FALSE, id |-> id, text |-> ""]

\* A name the client chose.
CustomName(t) == [custom |-> TRUE, id |-> 0, text |-> t]

\* The ids of S in increasing order: the iteration order of the Map, whose keys
\* are inserted in increasing order.
RECURSIVE IdSeq(_)
IdSeq(S) ==
    IF S = {} THEN <<>>
    ELSE LET m == CHOOSE x \in S : \A y \in S : x <= y
         IN  <<m>> \o IdSeq(S \ {m})

\* Array.from(clients.entries()).map(([id, client]) => ({id, name, ...}))
ClientList(cl) ==
    LET ids == IdSeq(DOMAIN cl) IN
    [k \in 1..Len(ids) |-> [id |-> ids[k], name |-> cl[ids[k]].name]]

\* client.ws.send(frame) to connection id: transmitted when its socket is OPEN.
SendTo(cl, ib, id, f) ==
    [i \in 1..Len(ib) |->
        IF i = id /\ i \in DOMAIN cl /\ cl[i].ready THEN Append(ib[i], f) ELSE ib[i]]

\* Mutant of Broadcast: excludeClientId is ignored.
BroadcastToAll(cl, ib, message, exclude) ==
    [i \in 1..Len(ib) |->
        IF i \in DOMAIN cl /\ cl[i].ready
        THEN Append(ib[i], [type |-> "broadcast", message |-> message])
        ELSE ib[i]]

\* function broadcast(message, excludeClientId = null); exclude = 0 is null.
Broadcast(cl, ib, message, exclude) ==
    [i \in 1..Len(ib) |->
        IF i \in DOMAIN cl /\ i # exclude /\ cl[i].ready
        THEN Append(ib[i], [type |-> "broadcast", message |-> message])
        ELSE ib[i]]

\* function sendClientList()
SendClientList(cl, ib) ==
    Broadcast(cl, ib, [type |-> "client_list", clients |-> ClientList(cl)], 0)

\* Mutant of NewClientId: the id is the size of the map plus one.
NewClientIdBySize(counter, cl) == Cardinality(DOMAIN cl) + 1

\* const clientId = ++clientIdCounter
NewClientId(counter, cl) == counter + 1

\* wss.on("connection"): a new id, the registry entry, the welcome frame and
\* the client list to everybody.
Connect ==
    /\ clientIdCounter < MaxConns
    /\ regEvents < MaxRegEvents
    /\ LET id == NewClientId(clientIdCounter, clients)
           cl == [i \in DOMAIN clients \cup {id} |->
                    IF i = id THEN [name |-> DefaultName(id), ready |-> TRUE]
                    ELSE clients[i]]
           welcome == [type |-> "welcome", clientId |-> id,
                       connectedClients |-> Cardinality(DOMAIN cl)]
       IN  /\ clientIdCounter' = id
           /\ clients' = cl
           /\ inbox' = SendClientList(cl, SendTo(cl, Append(inbox, <<>>), id, welcome))
    /\ regEvents' = regEvents + 1
    /\ UNCHANGED <<relayVars, sessVars, agentVars>>

\* A client's socket leaves the OPEN state (a close handshake has begun, or
\* the connection broke); its 'close' event has not been handled yet.
SocketClosing(id) ==
    /\ id \in DOMAIN clients
    /\ clients[id].ready
    /\ regEvents < MaxRegEvents
    /\ clients' = [clients EXCEPT ![id].ready = FALSE]
    /\ regEvents' = regEvents + 1
    /\ UNCHANGED <<clientIdCounter, inbox>>
    /\ UNCHANGED <<relayVars, sessVars, agentVars>>

\* ws.on("close"): the entry is deleted, the others are told and get the list.
CloseEvent(id) ==
    /\ id \in DOMAIN clients
    /\ ~clients[id].ready
    /\ LET cl == [i \in DOMAIN clients \ {id} |-> clients[i]]
           gone == [type |-> "client_disconnected", clientId |-> id,
                    name |-> clients[id].name]
       IN  /\ clients' = cl
           /\ inbox' = SendClientList(cl, Broadcast(cl, inbox, gone, 0))
    /\ UNCHANGED <<clientIdCounter, regEvents>>
    /\ UNCHANGED <<relayVars, sessVars, agentVars>>

\* case 'set_name': handleSetName(clientId, data.name)
HandleSetName(id, newName) ==
    /\ id \in DOMAIN clients
    /\ clients[id].ready
    /\ regEvents < MaxRegEvents
    /\ LET oldName == clients[id].name
           name == IF newName \in {Undefined, ""} THEN DefaultName(id)
                   ELSE CustomName(newName)
           cl == [clients EXCEPT ![id].name = name]
           ib1 == SendTo(cl, inbox, id, [type |-> "name_set", name |-> name])
           ib2 == Broadcast(cl, ib1, [type |-> "client_name_changed", clientId |-> id,
                                      oldName |-> oldName, newName |-> name], id)
       IN  /\ clients' = cl
           /\ inbox' = SendClientList(cl, ib2)
    /\ regEvents' = regEvents + 1
    /\ UNCHANGED clientIdCounter
    /\ UNCHANGED <<relayVars, sessVars, agentVars>>

\* case 'get_clients': handleGetClients(clientId)
HandleGetClients(id) ==
    /\ id \in DOMAIN clients
    /\ clients[id].ready
    /\ regEvents < MaxRegEvents
    /\ LET ids == IdSeq(DOMAIN clients)
           list == [k \in 1..Len(ids) |->
                      [id |-> ids[k], name |-> clients[ids[k]].name, isYou |-> ids[k] = id]]
       IN  inbox' = SendTo(clients, inbox, id, [type |-> "client_list", clients |-> list])
    /\ regEvents' = regEvents + 1
    /\ UNCHANGED <<clients, clientIdCounter>>
    /\ UNCHANGED <<relayVars, sessVars, agentVars>>

\* case 'broadcast': handleBroadcast(clientId, data.message).  With
\* data.message missing, message.substring throws and the catch of the message
\* handler answers 'Invalid message format'.
HandleBroadcast(id, message) ==
    /\ id \in DOMAIN clients
    /\ clients[id].ready
    /\ regEvents < MaxRegEvents
    /\ IF message = Undefined
       THEN inbox' = SendTo(clients, inbox, id,
                            [type |-> "error", message |-> "Invalid message format"])
       ELSE LET said == [type |-> "user_broadcast", from |-> clients[id].name,
                         fromId |-> id, message |-> message]
            IN  inbox' = SendTo(clients, Broadcast(clients, inbox, said, id), id,
                                [type |-> "broadcast_sent",
                                 message |-> "Message broadcasted to all clients"])
    /\ regEvents' = regEvents + 1
    /\ UNCHANGED <<clients, clientIdCounter>>
    /\ UNCHANGED <<relayVars, sessVars, agentVars>>

\* process.on('SIGINT'): every client is told, then every socket is closed
\* (the process exits a second later).
Shutdown ==
    /\ regEvents < MaxRegEvents
    /\ inbox' = Broadcast(clients, inbox,
                          [type |-> "server_shutdown",
                           message |-> "Server is shutting down"], 0)
    /\ clients' = [i \in DOMAIN clients |-> [clients[i] EXCEPT !.ready = FALSE]]
    /\ regEvents' = regEvents + 1
    /\ UNCHANGED clientIdCounter
    /\ UNCHANGED <<relayVars, sessVars, agentVars>>

NextRegistry ==
    \/ Connect
    \/ Shutdown
    \/ \E id \in 1..MaxConns : SocketClosing(id)
    \/ \E id \in 1..MaxConns : CloseEvent(id)
    \/ \E id \in 1..MaxConns, n \in {"x", "", Undefined} : HandleSetName(id, n)
    \/ \E id \in 1..MaxConns : HandleGetClients(id)
    \/ \E id \in 1..MaxConns, m \in {"hi", Undefined} : HandleBroadcast(id, m)

\* The registry of server-activity.js under connections, messages and closes.
SpecRegistry == Init /\ [][NextRegistry]_vars

-----------------------------------------------------------------------------
(* CodeCompleter.js: chat sessions *)

\* req.params.sessionId
SessionIds == {"s1", "s2"}

\* { role: 'system', content: SYSTEM_PROMPT }.  The field q of a message names
\* the chat request that pushed it (0: none).
SystemMsg == [role |-> "system", content |-> "SYSTEM_PROMPT", tool_calls |-> FALSE, q |-> 0]

\* { role: 'user', content: message }
UserMsg(q, message) == [role |-> "user", content |-> message, tool_calls |-> FALSE, q |-> q]

\* response.message of the upstream: the assistant's text, or its tool calls.
AssistantMsg(q, toolCalls) ==
    [role |-> "assistant", content |-> IF toolCalls THEN "" ELSE "reply",
     tool_calls |-> toolCalls, q |-> q]

\* { role: 'tool', content: JSON.stringify(toolResults) }
ToolMsg(q) == [role |-> "tool", content |-> "toolResults", tool_calls |-> FALSE, q |-> q]

\* session.messages.push(msg) on session object o
Push(objs, o, msg) == [objs EXCEPT ![o] = Append(@, msg)]

\* function getSession(sessionId): the session object of sessionId, created
\* with the system prompt when the map has none.
GetSession(cs, objs, sid) ==
    IF sid \in DOMAIN cs
    THEN [cs |-> cs, objs |-> objs, o |-> cs[sid]]
    ELSE [cs |-> [x \in DOMAIN cs \cup {sid} |->
                     IF x = sid THEN Len(objs) + 1 ELSE cs[x]],
          objs |-> Append(objs, <<SystemMsg>>),
          o |-> Len(objs) + 1]

\* Mutant of Visible: nothing is filtered out.
VisibleAll(msgs) == msgs

\* session.messages.filter(m => m.role !== 'system')
RECURSIVE Visible(_)
Visible(msgs) ==
    IF msgs = <<>> THEN <<>>
    ELSE IF Head(msgs).role # "system"
    THEN <<Head(msgs)>> \o Visible(Tail(msgs))
    ELSE Visible(Tail(msgs))

\* Mutant of Deleted: the entry stays.
DeletedNothing(cs, sid) == cs

\* chatSessions.delete(sessionId)
Deleted(cs, sid) == [x \in DOMAIN cs \ {sid} |-> cs[x]]

\* The chat requests that have been answered.
Answered == {q \in Posts : post[q].pc = "done"}

\* res.json / res.status(..).json / the closing SSE event of chat request q.
Answer(op, sid, status) == [op |-> op, sid |-> sid, status |-> status, messages |-> <<>>]

\* POST /chat/:sessionId (stream or not) and GET /chat/:sessionId/stream, up
\* to the first await: the message is validated, the session fetched or
\* created, the user message pushed; with the tool support cached the
\* upstream call follows at once, otherwise the probe is awaited.
ChatBegin(q, sid, message, stream) ==
    /\ post[q].pc = "idle"
    /\ \A p \in Posts : p < q => post[p].pc # "idle"
    /\ httpEvents < MaxHttp
    /\ httpEvents' = httpEvents + 1
    /\ IF message = ""
       THEN /\ post' = [post EXCEPT ![q].pc = "done", ![q].sid = sid,
                                     ![q].stream = stream, ![q].status = 400]
            /\ out' = Answer("chat", sid, 400)
            /\ UNCHANGED <<chatSessions, sessionObjs>>
       ELSE LET g == GetSession(chatSessions, sessionObjs, sid)
                objs == Push(g.objs, g.o, UserMsg(q, message))
            IN  /\ chatSessions' = g.cs
                /\ sessionObjs' = objs
                /\ post' = [post EXCEPT
                      ![q].pc = IF toolsSupportChecked THEN "calling" ELSE "probing",
                      ![q].sid = sid, ![q].message = message, ![q].stream = stream,
                      ![q].session = g.o,
                      ![q].supportsTools = toolsSupportChecked /\ toolsSupportCache,
                      ![q].sent = IF toolsSupportChecked THEN objs[g.o] ELSE <<>>,
                      ![q].after = IF toolsSupportChecked THEN Answered ELSE {}]
                /\ out' = Answer("none", sid, 0)
    /\ UNCHANGED <<toolsSupportChecked, toolsSupportCache>>
    /\ UNCHANGED <<relayVars, regVars, agentVars>>

\* modelSupportsTools: the test call returned (ok) or threw; the result is
\* cached and the upstream chat call is made with session.messages.
Probe(q, ok) ==
    /\ post[q].pc = "probing"
    /\ toolsSupportChecked' = TRUE
    /\ toolsSupportCache' = ok
    /\ post' = [post EXCEPT ![q].pc = "calling", ![q].supportsTools = ok,
                             ![q].sent = sessionObjs[post[q].session],
                             ![q].after = Answered]
    /\ UNCHANGED <<chatSessions, sessionObjs, out, httpEvents>>
    /\ UNCHANGED <<relayVars, regVars, agentVars>>

\* The answer of request q with the assistant's text.
Reply(q, objs) ==
    /\ sessionObjs' = objs
    /\ post' = [post EXCEPT ![q].pc = "done", ![q].status = 200,
                             ![q].response = objs[post[q].session][Len(objs[post[q].session])].content,
                             ![q].message_count = Len(objs[post[q].session])]
    /\ out' = Answer("chat", post[q].sid, 200)

\* catch (error): status 500, or the SSE error event.
Failed(q) ==
    /\ post' = [post EXCEPT ![q].pc = "done", ![q].status = 500]
    /\ out' = Answer("chat", post[q].sid, 500)
    /\ UNCHANGED sessionObjs

\* await ollamaClient.chat(chatOptions) settles: with the assistant's text
\* (pushed, answered), with tool calls (pushed with the tool results, then the
\* second upstream call), or with an error.
ChatReply(q, outcome) ==
    /\ post[q].pc = "calling"
    /\ outcome = "tool_calls" => post[q].supportsTools /\ ~post[q].stream
    /\ LET o == post[q].session IN
       CASE outcome = "error" -> Failed(q)
         [] outcome = "content" ->
              Reply(q, Push(sessionObjs, o, AssistantMsg(q, FALSE)))
         [] outcome = "tool_calls" ->
              LET objs == Push(Push(sessionObjs, o, AssistantMsg(q, TRUE)), o, ToolMsg(q))
              IN  /\ sessionObjs' = objs
                  /\ post' = [post EXCEPT ![q].pc = "final", ![q].sent = objs[o]]
                  /\ UNCHANGED out
    /\ UNCHANGED <<chatSessions, toolsSupportChecked, toolsSupportCache, httpEvents>>
    /\ UNCHANGED <<relayVars, regVars, agentVars>>

\* The second upstream call, made after the tool results, settles.
ChatFinal(q, ok) ==
    /\ post[q].pc = "final"
    /\ IF ok
       THEN Reply(q, Push(sessionObjs, post[q].session, AssistantMsg(q, FALSE)))
       ELSE Failed(q)
    /\ UNCHANGED <<chatSessions, toolsSupportChecked, toolsSupportCache, httpEvents>>
    /\ UNCHANGED <<relayVars, regVars, agentVars>>

\* app.get('/sessions/:sessionId')
GetHistory(sid) ==
    /\ httpEvents < MaxHttp
    /\ httpEvents' = httpEvents + 1
    /\ out' = IF sid \in DOMAIN chatSessions
              THEN [op |-> "GET", sid |-> sid, status |-> 200,
                    messages |-> Visible(sessionObjs[chatSessions[sid]])]
              ELSE [op |-> "GET", sid |-> sid, status |-> 404, messages |-> <<>>]
    /\ UNCHANGED <<chatSessions, sessionObjs, toolsSupportChecked, toolsSupportCache, post>>
    /\ UNCHANGED <<relayVars, regVars, agentVars>>

\* app.delete('/sessions/:sessionId')
DeleteSession(sid) ==
    /\ httpEvents < MaxHttp
    /\ httpEvents' = httpEvents + 1
    /\ IF sid \in DOMAIN chatSessions
       THEN /\ chatSessions' = Deleted(chatSessions, sid)
            /\ out' = Answer("DELETE", sid, 200)
       ELSE /\ UNCHANGED chatSessions
            /\ out' = Answer("DELETE", sid, 404)
    /\ UNCHANGED <<sessionObjs, toolsSupportChecked, toolsSupportCache, post>>
    /\ UNCHANGED <<relayVars, regVars, agentVars>>

NextSessions ==
    \/ \E q \in Posts, sid \in SessionIds, m \in {"hi", ""}, stream \in BOOLEAN :
          ChatBegin(q, sid, m, stream)
    \/ \E q \in Posts, ok \in BOOLEAN : Probe(q, ok)
    \/ \E q \in Posts, outcome \in {"content", "tool_calls", "error"} :
          ChatReply(q, outcome)
    \/ \E q \in Posts, ok \in BOOLEAN : ChatFinal(q, ok)
    \/ \E sid \in SessionIds : GetHistory(sid)
    \/ \E sid \in SessionIds : DeleteSession(sid)

\* CodeCompleter.js under chat requests, history reads and session deletions.
SpecSessions == Init /\ [][NextSessions]_vars

-----------------------------------------------------------------------------
(* langchain-ollama: OllamaLangChainAgent *)

\* new HumanMessage(message) of chat k
HumanMessage(k, message) == [role |-> "human", content |-> message, k |-> k, context |-> <<>>]

\* new AIMessage(content) of chat k
AIMessage(k) == [role |-> "ai", content |-> "reply", k |-> k, context |-> <<>>]

\* message.toLowerCase().includes('previous' | 'before' | 'earlier' | 'history')
AsksAboutHistory(message) == message = "history"

\* The last n elements of s: s.slice(-n)
LastN(s, n) == IF Len(s) <= n THEN s ELSE SubSeq(s, Len(s) - n + 1, Len(s))

\* get_conversation_history of part_002: the human and AI messages, the last
\* 10 of them.
HistoryTool(h) == LastN(SelectSeq(h, LAMBDA m : m.role \in {"human", "ai"}), 10)

\* new HumanMessage(contextualPrompt) of part_002: the rendered history and
\* the question.
ContextualPrompt(k, message, h) ==
    [role |-> "human", content |-> message, k |-> k, context |-> HistoryTool(h)]

\* Mutant of AgentAfterInit: the catch leaves a half-built executor in place.
AgentAfterInitKept(p, ok) == IF p = "ollama-agent.ts" THEN "executor" ELSE "unset"

\* this.agent after initializeAgent: the AgentExecutor when createReactAgent
\* succeeded (ollama-agent.ts), unset when it threw; part_002 builds no agent.
AgentAfterInit(p, ok) == IF p = "ollama-agent.ts" /\ ok THEN "executor" ELSE "unset"

\* Mutant of Cleared: the history is kept.
ClearedNothing(h) == h

\* [this.conversationHistory[0]]
Cleared(h) == <<h[1]>>

\* The path chat(message, streaming) takes.
PathOf(p, a, message, streaming) ==
    IF streaming THEN "stream"
    ELSE IF p = "ollama-agent.ts" THEN (IF a = "executor" THEN "agent" ELSE "basic")
    ELSE IF AsksAboutHistory(message) THEN "contextual"
    ELSE "basic"

\* new OllamaLangChainAgent(), in the constructor of OllamaCLI
Construct(p) ==
    /\ apc = "off"
    /\ agentProg' = p
    /\ conversationHistory' = <<SystemMessage>>
    /\ apc' = "new"
    /\ lastOp' = "constructor"
    /\ UNCHANGED <<agent, initFailed, memory, call, chats, ret>>
    /\ UNCHANGED <<relayVars, regVars, sessVars>>

\* initializeAgent(): ok tells whether createReactAgent and the AgentExecutor
\* were built; part_002 builds nothing and cannot fail.
InitializeAgent(ok) ==
    /\ apc = "new"
    /\ agentProg = "part_002" => ok
    /\ agent' = AgentAfterInit(agentProg, ok)
    /\ initFailed' = ~ok
    /\ apc' = "ready"
    /\ lastOp' = "initializeAgent"
    /\ UNCHANGED <<agentProg, conversationHistory, memory, call, chats, ret>>
    /\ UNCHANGED <<relayVars, regVars, sessVars>>

\* chat(message, streaming) and streamChat(message, onToken) up to the await
\* of the model: the user message is pushed (not on the agent path) and the
\* model, or the agent executor, is called.
Chat(message, streaming) ==
    /\ apc = "ready"
    /\ chats < MaxChats
    /\ LET k == chats + 1
           path == PathOf(agentProg, agent, message, streaming)
           h == Append(conversationHistory, HumanMessage(k, message))
       IN  /\ chats' = k
           /\ conversationHistory' = IF path = "agent" THEN conversationHistory ELSE h
           /\ call' = [k |-> k, message |-> message, streaming |-> streaming, path |-> path,
                       input |-> CASE path = "agent" ->
                                        Append(memory, HumanMessage(k, message))
                                   [] path = "contextual" ->
                                        <<SystemMessage, ContextualPrompt(k, message, h)>>
                                   [] OTHER -> h]
    /\ apc' = "waiting"
    /\ lastOp' = "chat"
    /\ UNCHANGED <<agentProg, agent, initFailed, memory, ret>>
    /\ UNCHANGED <<relayVars, regVars, sessVars>>

\* The awaited call settles: with the reply, which is pushed (the executor
\* saves the exchange in its memory instead), or with an error, which the catch
\* turns into the returned or printed error text.
Settle(ok) ==
    /\ apc = "waiting"
    /\ IF ok
       THEN /\ ret' = "reply"
            /\ IF call.path = "agent"
               THEN /\ memory' = memory \o <<HumanMessage(call.k, call.message),
                                             AIMessage(call.k)>>
                    /\ UNCHANGED conversationHistory
               ELSE /\ conversationHistory' = Append(conversationHistory, AIMessage(call.k))
                    /\ UNCHANGED memory
       ELSE /\ ret' = "error text"
            /\ UNCHANGED <<conversationHistory, memory>>
    /\ apc' = "ready"
    /\ lastOp' = IF ok THEN "replied" ELSE "caught"
    /\ UNCHANGED <<agentProg, agent, initFailed, call, chats>>
    /\ UNCHANGED <<relayVars, regVars, sessVars>>

\* clearHistory(), the CLI's `clear` command
ClearHistory ==
    /\ apc = "ready"
    /\ conversationHistory' = Cleared(conversationHistory)
    /\ memory' = <<>>
    /\ lastOp' = "clearHistory"
    /\ UNCHANGED <<agentProg, agent, initFailed, apc, call, chats, ret>>
    /\ UNCHANGED <<relayVars, regVars, sessVars>>

NextAgent ==
    \/ \E p \in AgentProgs : Construct(p)
    \/ \E ok \in BOOLEAN : InitializeAgent(ok)
    \/ \E m \in {"hi", "history"}, streaming \in BOOLEAN : Chat(m, streaming)
    \/ \E ok \in BOOLEAN : Settle(ok)
    \/ ClearHistory

\* The CLI of the LangChain agent: construction, initializeAgent, then chats
\* and clear commands one at a time.
SpecAgent == Init /\ [][NextAgent]_vars

-----------------------------------------------------------------------------
(* Reading a request's trace *)

IsDecode(e) == e.ev = "decode"
IsSend(e) == e.ev = "send"
IsLog(e) == e.ev = "log"
IsClose(e) == e.ev = "close"
IsDeliveredSend(e) == e.ev = "send" /\ e.delivered

\* The events of trace tr that handler h left.
ByH(tr, h) == LET T(e) == e.h = h IN SelectSeq(tr, T)

\* The Records JSON.parse returned, in order.
DecodedRecs(tr) == LET d == SelectSeq(tr, IsDecode) IN [i \in 1..Len(d) |-> d[i].rec]

\* The frames handed to ws.send, in order.
SentFrames(tr) == LET d == SelectSeq(tr, IsSend) IN [i \in 1..Len(d) |-> d[i].frame]

\* The frames the client received, in order.
Delivered(tr) == LET d == SelectSeq(tr, IsDeliveredSend) IN [i \in 1..Len(d) |-> d[i].frame]

\* Another request of the same client has closed the socket.
ClosedByOther(r) ==
    \E q \in Requests \ {r} :
        owner[q] = owner[r] /\ \E i \in 1..Len(trace[q]) : IsClose(trace[q][i])

-----------------------------------------------------------------------------
(* The line structure of a text, read off the positions of its newlines *)

NLPos(s) == {i \in 1..Len(s) : s[i] = "NL"}

\* The position of the k-th newline of s; 0 for k = 0.
NthNL(s, k) ==
    IF k = 0 THEN 0
    ELSE CHOOSE i \in NLPos(s) : Cardinality({j \in NLPos(s) : j < i}) = k - 1

\* The newline-terminated lines of s, in order.
RefLines(s) ==
    [k \in 1..Cardinality(NLPos(s)) |-> SubSeq(s, NthNL(s, k - 1) + 1, NthNL(s, k) - 1)]

\* What follows the last newline of s (all of s when it has none).
AfterLastNL(s) == SubSeq(s, NthNL(s, Cardinality(NLPos(s))) + 1, Len(s))

\* The Records of the well-formed lines among ls, in order.
RECURSIVE GoodRecs(_)
GoodRecs(ls) ==
    IF ls = <<>> THEN <<>>
    ELSE (IF Parse(Head(ls)).ok THEN <<Parse(Head(ls))>> ELSE <<>>) \o GoodRecs(Tail(ls))

\* The non-blank lines among ls that are not JSON.
BadLines(ls) == {k \in 1..Len(ls) : ~IsBlank(ls[k]) /\ ~Parse(ls[k]).ok}

\* The token frames of the Records recs, in order.
RECURSIVE TokensOf(_)
TokensOf(recs) ==
    IF recs = <<>> THEN <<>>
    ELSE (IF Head(recs).response # "" THEN <<Tok(Head(recs).response)>> ELSE <<>>)
         \o TokensOf(Tail(recs))

\* s is empty or holds whitespace only.
AllWhitespace(s) == \A i \in 1..Len(s) : s[i] \in {"NL", "SP"}

NoDone(recs) == \A i \in 1..Len(recs) : ~recs[i].done

\* The whole text fed as one chunk, followed by end-of-data, on an open socket.
OneChunk(p, text) ==
    LET d == DataHandler(p, <<>>, TRUE, text)
        e == EndHandler(p, d.buffer, d.open)
    IN  d.tr \o e.tr

-----------------------------------------------------------------------------
(* Claims *)

\* C1: split-invariance.  When a request's body has ended, the Records its
\* handlers decoded are the Records decoded when the same text arrives as one
\* single chunk followed by end-of-data.
C1_SplitInvariance ==
    \A r \in Requests :
        pc[r] = "ended" =>
            DecodedRecs(trace[r]) = DecodedRecs(OneChunk(prog, received[r]))

\* C2: once a Record with a true done has been decoded for a request, nothing
\* more is decoded for it and no token is sent for it: the done Record is the
\* last Record of the request.
C2_DoneIsFinal ==
    \A r \in Requests : \A i \in 1..Len(trace[r]) :
        (IsDecode(trace[r][i]) /\ trace[r][i].rec.done) =>
            \A j \in (i + 1)..Len(trace[r]) :
                /\ ~IsDecode(trace[r][j])
                /\ ~(IsSend(trace[r][j]) /\ trace[r][j].frame.kind = "token")

\* C3: at end-of-data a non-blank buffer that decodes as JSON is emitted like
\* a newline-terminated Record: the end handler sends its response, if it has
\* one, and then the completion marker, if done is true.
C3_TailEmitted ==
    \A r \in Requests :
        LET tail == AfterLastNL(received[r])
            rec == Parse(tail)
        IN  (pc[r] = "ended" /\ ~IsBlank(tail) /\ rec.ok) =>
                SentFrames(ByH(trace[r], "end")) =
                    (IF rec.response # "" THEN <<Tok(rec.response)>> ELSE <<>>)
                    \o (IF rec.done THEN <<Complete>> ELSE <<>>)

\* C4: buffer invariant.  The buffer of every request holds no newline, and it
\* is the text after the last newline of everything the request has received.
C4_BufferInvariant ==
    \A r \in Requests :
        /\ \A i \in 1..Len(buffer[r]) : buffer[r][i] # "NL"
        /\ buffer[r] = AfterLastNL(received[r])

\* C4 witness: chunks with newlines have been processed and an incomplete line
\* is waiting in the buffer.
C4_Witness ==
    \E r \in Requests :
        /\ pc[r] = "streaming"
        /\ Cardinality(NLPos(received[r])) >= 2
        /\ buffer[r] = <<"Lh">>

\* C5: a complete non-blank line that is not JSON is skipped and reported, and
\* nothing else happens.  For a request that has received such a line and no
\* done Record, the data handler has decoded exactly the well-formed lines, in
\* order, has sent exactly their tokens (each delivered, unless another request
\* closed the socket), logged once per malformed line and never closed the socket.
C5_BadLineSkipped ==
    \A r \in Requests :
        LET ls == RefLines(received[r])
            good == GoodRecs(ls)
            dt == ByH(trace[r], "data")
        IN  (pc[r] \in {"streaming", "ended"} /\ BadLines(ls) # {} /\ NoDone(good)) =>
                /\ DecodedRecs(dt) = good
                /\ SentFrames(dt) = TokensOf(good)
                /\ ClosedByOther(r) \/ Delivered(dt) = TokensOf(good)
                /\ Len(SelectSeq(dt, IsLog)) = Cardinality(BadLines(ls))
                /\ SelectSeq(dt, IsClose) = <<>>
                /\ pc[r] = "streaming" /\ ~ClosedByOther(r) => wsOpen[owner[r]]

\* C5 witness: a malformed first line, then a well-formed line whose token
\* reached the client over a socket that is still open.
C5_Witness ==
    \E r \in Requests :
        /\ pc[r] = "streaming"
        /\ 1 \in BadLines(RefLines(received[r]))
        /\ Len(RefLines(received[r])) = 2
        /\ Delivered(ByH(trace[r], "data")) = <<Tok("a")>>
        /\ wsOpen[owner[r]]

\* C6: within one request the client receives the content tokens in the order
\* of their lines, none reordered, duplicated or dropped, also when another
\* request of the same client is in flight: as long as the request has
\* received no done Record and no request has failed or errored, the tokens
\* delivered for it are the tokens of its well-formed complete lines, in order.
C6_TokensInOrder ==
    \A r \in Requests :
        (/\ pc[r] \in {"streaming", "ended"}
         /\ \A q \in Requests : pc[q] \notin {"failed", "errored"}
         /\ NoDone(GoodRecs(RefLines(received[r])))) =>
            Delivered(ByH(trace[r], "data")) = TokensOf(GoodRecs(RefLines(received[r])))

\* The text a step appended to request r's received text.
NewText(r) == SubSeq(received'[r], Len(received[r]) + 1, Len(received'[r]))

\* C7: concurrent requests are independent.  An event of another request
\* leaves a request's buffer and decoded Records alone, and a request's own
\* data and end events change its buffer and decoded Records exactly as the
\* handler does when run alone, on the request's own buffer and an open socket.
C7_Independent ==
    [][\A r \in Requests :
          /\ (pc'[r] = pc[r] /\ received'[r] = received[r]) =>
                /\ buffer'[r] = buffer[r]
                /\ DecodedRecs(trace'[r]) = DecodedRecs(trace[r])
          /\ (pc[r] = "streaming" /\ pc'[r] = "streaming") =>
                LET solo == DataHandler(prog, buffer[r], TRUE, NewText(r)) IN
                /\ buffer'[r] = solo.buffer
                /\ DecodedRecs(trace'[r]) = DecodedRecs(trace[r]) \o DecodedRecs(solo.tr)
          /\ (pc[r] = "streaming" /\ pc'[r] = "ended") =>
                LET solo == EndHandler(prog, buffer[r], TRUE) IN
                /\ buffer'[r] = buffer[r]
                /\ DecodedRecs(trace'[r]) = DecodedRecs(trace[r]) \o DecodedRecs(solo.tr)
      ]_vars

\* C7 witness: two requests of the same client are streaming, each with its
\* own incomplete line in its buffer and its own decoded Record.
C7_Witness ==
    /\ pc[1] = "streaming" /\ pc[2] = "streaming"
    /\ owner[1] = owner[2]
    /\ buffer[1] # <<>> /\ buffer[2] # <<>> /\ buffer[1] # buffer[2]

\* C8: a stream error ends the request with an error notification and nothing
\* else.  The error step keeps the request's trace and appends to it one send,
\* of an error frame (never the completion marker), delivered when the socket
\* is open; server.js then closes the socket, server-activity.js leaves it.
C8_StreamError ==
    [][\A r \in Requests :
          (pc[r] = "streaming" /\ pc'[r] = "errored") =>
              LET n == Len(trace[r])
                  new == SubSeq(trace'[r], n + 1, Len(trace'[r]))
              IN  /\ Len(trace'[r]) > n
                  /\ SubSeq(trace'[r], 1, n) = trace[r]
                  /\ SentFrames(new) = <<Err("Stream error")>>
                  /\ new[1] = EvSend("error", Err("Stream error"), wsOpen[owner[r]])
                  /\ Err("Stream error") # Complete
                  /\ IF prog = "server.js"
                     THEN new = <<new[1], EvClose("error")>> /\ ~wsOpen'[owner[r]]
                     ELSE new = <<new[1]>> /\ wsOpen'[owner[r]] = wsOpen[owner[r]]
      ]_vars

\* C8 witness: a request whose token had reached the client was hit by a
\* stream error; the client holds the token and then the error frame.
C8_Witness ==
    \E r \in Requests :
        /\ pc[r] = "errored"
        /\ Delivered(trace[r]) = <<Tok("b"), Err("Stream error")>>

\* C9: premature end.  When end-of-data finds a non-blank tail that is not
\* JSON, the end handler only logs: it sends no frame and does not close, and
\* a socket nobody closed stays open.
C9_PrematureEnd ==
    \A r \in Requests :
        LET tail == AfterLastNL(received[r]) IN
        (pc[r] = "ended" /\ ~IsBlank(tail) /\ ~Parse(tail).ok) =>
            /\ ByH(trace[r], "end") = <<EvLog("end")>>
            /\ (SelectSeq(trace[r], IsClose) = <<>> /\ ~ClosedByOther(r)) => wsOpen[owner[r]]

\* C9 witness: the body ended in the middle of a record, after a token had
\* been delivered.
C9_Witness ==
    \E r \in Requests :
        /\ pc[r] = "ended"
        /\ received[r] = <<"A", "NL", "Lh">>
        /\ Delivered(trace[r]) = <<Tok("a")>>
        /\ wsOpen[owner[r]]

\* No close of request r's own comes before event i of its trace, and no
\* other request has closed its socket: the socket was open at event i.
OpenBefore(r, i) ==
    /\ ~ClosedByOther(r)
    /\ \A j \in 1..(i - 1) : ~IsClose(trace[r][j])

\* Event e is the data handler's send of frame f.
IsDataSend(e, f) == IsSend(e) /\ e.h = "data" /\ e.frame = f

\* C10: the data handler handles response first and done second,
\* independently.  Right after a Record is decoded comes the send of its
\* token, if it has a response, then the send of the completion marker, if
\* done is true, and no other send of the data handler; on an open socket
\* both are delivered.
C10_ResponseThenDone ==
    \A r \in Requests : \A i \in 1..Len(trace[r]) :
        LET tr == trace[r]
            rec == tr[i].rec
            n1 == IF rec.response # "" THEN 1 ELSE 0
            n2 == IF rec.done THEN 1 ELSE 0
        IN  (IsDecode(tr[i]) /\ tr[i].h = "data") =>
                /\ Len(tr) >= i + n1 + n2
                /\ n1 = 1 => IsDataSend(tr[i + 1], Tok(rec.response))
                /\ n2 = 1 => IsDataSend(tr[i + n1 + 1], Complete)
                /\ \A k \in (i + 1)..(i + n1 + n2) : OpenBefore(r, i) => tr[k].delivered
                /\ Len(tr) > i + n1 + n2 =>
                      ~(IsSend(tr[i + n1 + n2 + 1]) /\ tr[i + n1 + n2 + 1].h = "data")

\* C10 witness: a Record with only a response and then a Record with both
\* fields were decoded; the client received the first token, then the second
\* token and the completion marker.
C10_Witness ==
    \E r \in Requests :
        /\ DecodedRecs(trace[r]) = <<Parse(<<"A">>), Parse(<<"AD">>)>>
        /\ Delivered(trace[r]) = <<Tok("a"), Tok("a"), Complete>>

\* C11: feeding an empty chunk is a no-op.  In every reachable state of a
\* streaming request the data handler, run on the request's buffer with the
\* empty chunk, returns the same buffer, leaves no event (no send) and leaves
\* the socket as it was.
C11_EmptyChunkNoOp ==
    \A r \in Requests :
        pc[r] = "streaming" =>
            DataHandler(prog, buffer[BufferCell(r)], wsOpen[owner[r]], <<>>)
                = [buffer |-> buffer[r], tr |-> <<>>, open |-> wsOpen[owner[r]]]

\* C11 witness: a streaming request that has sent a token and holds an
\* incomplete line in its buffer, the state an empty chunk must leave alone.
C11_Witness ==
    \E r \in Requests :
        /\ pc[r] = "streaming"
        /\ buffer[r] = <<"SP", "Lh">>
        /\ Delivered(trace[r]) = <<Tok("a")>>

\* C12: a chunk without a newline only grows the buffer.  A data step whose
\* chunk holds no newline sets the buffer to the old buffer followed by the
\* chunk and leaves the request's trace (so the frames sent) and the socket
\* unchanged.
C12_NoNewlineGrowsBuffer ==
    [][\A r \in Requests :
          (pc[r] = "streaming" /\ pc'[r] = "streaming" /\ NLPos(NewText(r)) = {}) =>
              /\ buffer'[r] = buffer[r] \o NewText(r)
              /\ trace'[r] = trace[r]
              /\ wsOpen' = wsOpen
      ]_vars

\* C12 witness: two chunks' worth of text without a newline, a whole record,
\* wait in the buffer and nothing has been decoded or sent.
C12_Witness ==
    \E r \in Requests :
        /\ pc[r] = "streaming"
        /\ buffer[r] = <<"Lh", "Rh">>
        /\ received[r] = <<"Lh", "Rh">>
        /\ trace[r] = <<>>

\* C13: end-of-data with an empty or all-whitespace buffer emits nothing: the
\* end handler of a request whose text after the last newline is blank leaves
\* no event at all (no decode, no send, no log, no close).
C13_BlankTailSilent ==
    \A r \in Requests :
        (pc[r] = "ended" /\ AllWhitespace(AfterLastNL(received[r]))) =>
            ByH(trace[r], "end") = <<>>

\* C13 witness: the body ended after a chunk that ended with a newline and
\* whitespace, a token having been delivered.
C13_Witness ==
    \E r \in Requests :
        /\ pc[r] = "ended"
        /\ received[r] = <<"A", "NL", "SP">>
        /\ Delivered(trace[r]) = <<Tok("a")>>

\* A frame of inbox i that relays the text m said by connection id.
IsUserBroadcast(f, id, m) ==
    /\ f.type = "broadcast"
    /\ f.message.type = "user_broadcast"
    /\ f.message.fromId = id
    /\ f.message.message = m

\* C14: a broadcast request with a text hands that text exactly once to every
\* other registered client whose socket is open and never to the sender, the
\* sender gets the broadcast_sent acknowledgement, and the registry with its
\* names is left as it was.  The step is recognised by the acknowledgement,
\* which only handleBroadcast sends.
C14_BroadcastToOthers ==
    [][\A id \in DOMAIN clients :
          (/\ Len(inbox'[id]) > Len(inbox[id])
           /\ inbox'[id][Len(inbox'[id])].type = "broadcast_sent") =>
              /\ clients' = clients
              /\ clientIdCounter' = clientIdCounter
              /\ \A i \in 1..Len(inbox) :
                    IF i = id
                    THEN /\ Len(inbox'[i]) = Len(inbox[i]) + 1
                         /\ SubSeq(inbox'[i], 1, Len(inbox[i])) = inbox[i]
                         /\ inbox'[i][Len(inbox'[i])].type = "broadcast_sent"
                    ELSE IF i \in DOMAIN clients /\ clients[i].ready
                    THEN /\ Len(inbox'[i]) = Len(inbox[i]) + 1
                         /\ SubSeq(inbox'[i], 1, Len(inbox[i])) = inbox[i]
                         /\ IsUserBroadcast(inbox'[i][Len(inbox'[i])], id, "hi")
                    ELSE inbox'[i] = inbox[i] ]_vars

\* Three connections, the third one's socket no longer open: the second said
\* "hi", the first received it, the third did not.
C14_Witness ==
    /\ clientIdCounter = 3
    /\ DOMAIN clients = {1, 2, 3}
    /\ ~clients[3].ready
    /\ inbox[2] # <<>> /\ inbox[2][Len(inbox[2])].type = "broadcast_sent"
    /\ inbox[1] # <<>> /\ IsUserBroadcast(inbox[1][Len(inbox[1])], 2, "hi")
    /\ \A k \in 1..Len(inbox[3]) : ~IsUserBroadcast(inbox[3][k], 2, "hi")
    /\ \A k \in 1..Len(inbox[2]) : ~IsUserBroadcast(inbox[2][k], 2, "hi")

\* The history the map holds for sid (empty when it holds none).
HistoryOf(cs, objs, sid) == IF sid \in DOMAIN cs THEN objs[cs[sid]] ELSE <<>>

\* h ends with the user message of chat request q followed by what q pushed
\* after it, the last of which is the assistant's reply.
EndsWithExchange(h, q) ==
    /\ h # <<>>
    /\ h[Len(h)].role = "assistant" /\ h[Len(h)].q = q /\ ~h[Len(h)].tool_calls
    /\ \E k \in 1..Len(h) :
          /\ h[k] = UserMsg(q, post[q].message)
          /\ \A j \in (k + 1)..Len(h) : h[j].q = q

\* C15: when a non-streaming chat request with a message is answered with the
\* assistant's reply, the session history ends with the request's user message
\* followed by that reply and message_count is the length of the history; and
\* a request that calls the upstream after an earlier one on the same session
\* was answered sends that earlier exchange along.
C15_ChatHistory ==
    [][\A q \in Posts :
          /\ (post[q].pc # "done" /\ post'[q].pc = "done" /\ post'[q].status = 200
                /\ ~post'[q].stream) =>
                LET h == HistoryOf(chatSessions', sessionObjs', post'[q].sid) IN
                /\ post'[q].response = "reply"
                /\ EndsWithExchange(h, q)
                /\ post'[q].message_count = Len(h)
          /\ (post[q].pc # "calling" /\ post'[q].pc = "calling") =>
                \A p \in post'[q].after :
                    (post[p].sid = post'[q].sid /\ post[p].session = post'[q].session
                       /\ post[p].status = 200) =>
                        \E i, j \in 1..Len(post'[q].sent) :
                            /\ i < j
                            /\ post'[q].sent[i] = UserMsg(p, post[p].message)
                            /\ post'[q].sent[j].role = "assistant"
                            /\ post'[q].sent[j].q = p ]_vars

\* This step answers a request of kind op on session id sid.
Answers(op, sid) == httpEvents' # httpEvents /\ out'.op = op /\ out'.sid = sid

\* C16: DELETE /sessions/:sessionId on an existing session answers 200 and
\* removes it, leaving the other sessions alone; on an id without a session it
\* answers 404 and leaves every session unchanged.  While an id has no
\* session, GET /sessions/:sessionId answers 404 and a chat on that id starts
\* from a history holding only the system prompt.
C16_DeleteSession ==
    [][\A sid \in SessionIds :
          /\ Answers("DELETE", sid) =>
                /\ sessionObjs' = sessionObjs
                /\ sid \notin DOMAIN chatSessions'
                /\ \A x \in DOMAIN chatSessions \ {sid} :
                      x \in DOMAIN chatSessions' /\ chatSessions'[x] = chatSessions[x]
                /\ IF sid \in DOMAIN chatSessions
                   THEN out'.status = 200
                   ELSE out'.status = 404 /\ chatSessions' = chatSessions
          /\ (Answers("GET", sid) /\ sid \notin DOMAIN chatSessions) => out'.status = 404
          /\ \A q \in Posts :
                (/\ sid \notin DOMAIN chatSessions
                 /\ post[q].pc = "idle" /\ post'[q].pc \in {"probing", "calling"}
                 /\ post'[q].sid = sid) =>
                    HistoryOf(chatSessions', sessionObjs', sid)
                        = <<SystemMsg, UserMsg(q, post'[q].message)>> ]_vars

\* A session that was answered, deleted and then started again by a new chat:
\* the map holds the new object with the system prompt and the new message.
C16_Witness ==
    /\ DOMAIN chatSessions = {"s1"}
    /\ chatSessions["s1"] = 2
    /\ sessionObjs[2] = <<SystemMsg, UserMsg(2, "hi")>>
    /\ Len(sessionObjs[1]) = 3
    /\ post[1].status = 200

\* C17: GET /sessions/:sessionId changes neither the session map nor any
\* session; for an id without a session it answers 404, for a known id it
\* answers with the session's messages in their order, system messages left out.
C17_GetHistory ==
    [][\A sid \in SessionIds :
          Answers("GET", sid) =>
              /\ chatSessions' = chatSessions
              /\ sessionObjs' = sessionObjs
              /\ IF sid \in DOMAIN chatSessions
                 THEN /\ out'.status = 200
                      /\ out'.messages =
                            SelectSeq(sessionObjs[chatSessions[sid]],
                                      LAMBDA m : m.role # "system")
                 ELSE out'.status = 404 /\ out'.messages = <<>> ]_vars

\* The history of an answered chat was read: the user message and the reply,
\* without the system prompt the session starts with.
C17_Witness ==
    /\ out.op = "GET" /\ out.status = 200
    /\ out.messages = <<UserMsg(1, "hi"), AssistantMsg(1, FALSE)>>
    /\ out.sid \in DOMAIN chatSessions
    /\ sessionObjs[chatSessions[out.sid]] =
          <<SystemMsg, UserMsg(1, "hi"), AssistantMsg(1, FALSE)>>

\* C18: every chat pushes the user message onto the conversation history and
\* calls the model with that full history, and the model's reply is pushed
\* after it, whichever path the chat takes.
C18_PersistentMemory ==
    [][/\ lastOp' = "chat" =>
            /\ conversationHistory' =
                  Append(conversationHistory, HumanMessage(chats', call'.message))
            /\ call'.input = conversationHistory'
       /\ lastOp' = "replied" =>
            conversationHistory' = Append(conversationHistory, AIMessage(call.k)) ]_vars

\* C19: clearHistory leaves exactly the original system message (and an empty
\* memory), whatever chats came before; clearing what was cleared changes
\* nothing; the chat after it calls the model with nothing older than itself
\* besides the system message.
C19_ClearHistory ==
    [][/\ lastOp' = "clearHistory" =>
            /\ conversationHistory' = <<SystemMessage>>
            /\ memory' = <<>>
            /\ Cleared(conversationHistory') = conversationHistory'
       /\ (lastOp = "clearHistory" /\ lastOp' = "chat") =>
            \A i \in 1..Len(call'.input) :
                \/ call'.input[i] = SystemMessage
                \/ /\ call'.input[i].k = chats'
                   /\ \A j \in 1..Len(call'.input[i].context) :
                         call'.input[i].context[j].k = chats' ]_vars

\* Two chats, a clear, and the third chat under way: the history holds the
\* system message and the third user message only.
C19_Witness ==
    /\ chats = 3
    /\ lastOp = "chat"
    /\ conversationHistory = <<SystemMessage, HumanMessage(3, "hi")>>
    /\ call.input = conversationHistory

\* What C20 asks of a step.
C20_Step ==
    /\ (initFailed /\ lastOp' = "chat" /\ ~call'.streaming) =>
          /\ call'.path = "basic"
          /\ conversationHistory' =
                Append(conversationHistory, HumanMessage(chats', call'.message))
          /\ call'.input = conversationHistory'
    /\ (initFailed /\ lastOp' = "replied" /\ ~call.streaming) =>
          /\ ret' = "reply"
          /\ conversationHistory' = Append(conversationHistory, AIMessage(call.k))
    /\ initFailed' => agent' = "unset"

\* C20: when building the tool agent failed in initializeAgent the agent is
\* unset, and every later non-streaming chat takes the basic conversation
\* path: the user message is pushed, the model is called with the history, and
\* its reply is pushed and returned.
C20_Fallback == [][C20_Step]_vars

\* After a failed initializeAgent a non-streaming chat was answered and is in
\* the history.
C20_Witness ==
    /\ initFailed
    /\ agent = "unset"
    /\ lastOp = "replied"
    /\ ~call.streaming /\ call.path = "basic"
    /\ ret = "reply"
    /\ conversationHistory = <<SystemMessage, HumanMessage(1, "hi"), AIMessage(1)>>

\* Some request of client c has called ws.close() on c's socket.
CloseCalled(c) ==
    \E q \in Requests : owner[q] = c /\ \E j \in 1..Len(trace[q]) : IsClose(trace[q][j])

Markers(tr) == LET M(f) == f = Complete IN SelectSeq(Delivered(tr), M)

\* C22: for one generation request the client receives at most one completion
\* marker, whatever lines and chunks the upstream sends.
C22_AtMostOneMarker == \A r \in Requests : Len(Markers(trace[r])) <= 1

\* The client has received a terminal notification for request r: the
\* completion marker or an error message.
Notified(r) ==
    \E i \in 1..Len(trace[r]) :
        IsDeliveredSend(trace[r][i]) /\ trace[r][i].frame.kind \in {"complete", "error"}

\* C23: every request whose upstream has terminated, by end-of-data or by an
\* error, eventually has given the client a terminal notification, and in
\* server.js its socket is eventually closed.
C23_EventualOutcome ==
    \A r \in Requests :
        (pc[r] \in {"ended", "errored"}) ~>
            (Notified(r) /\ (prog = "server.js" => ~wsOpen[owner[r]]))

\* The notifications the server fans out to the clients.
FanOutKinds ==
    {"user_broadcast", "client_name_changed", "client_disconnected",
     "client_list", "server_shutdown"}

\* The kind of notification frame f carries: the type of what broadcast() was
\* given when f is its wrapper, the frame's own type otherwise.
KindOf(f) == IF f.type = "broadcast" THEN f.message.type ELSE f.type

\* C24: every notification the server fans out reaches the client as a frame
\* whose top-level type is the notification's kind, the field the clients
\* dispatch on.
C24_ProtocolAgreement ==
    \A i \in 1..Len(inbox) : \A k \in 1..Len(inbox[i]) :
        KindOf(inbox[i][k]) \in FanOutKinds => inbox[i][k].type = KindOf(inbox[i][k])

\* What C25 asks of a step.
C25_Step ==
    LET added == DOMAIN clients' \ DOMAIN clients
        removed == DOMAIN clients \ DOMAIN clients'
    IN  /\ DOMAIN clients \subseteq 1..clientIdCounter
        /\ Len(inbox') = clientIdCounter'
        /\ clientIdCounter' \in {clientIdCounter, clientIdCounter + 1}
        /\ added = IF clientIdCounter' > clientIdCounter THEN {clientIdCounter'} ELSE {}
        /\ added # {} => removed = {}
        /\ Cardinality(removed) <= 1
        /\ \A id \in removed : ~clients[id].ready
        /\ \A id \in DOMAIN clients \cap DOMAIN clients' :
              clients'[id].ready => clients[id].ready

\* C25: the clients map holds exactly the connections that have opened and
\* whose close has not been handled, each under its own id: a step adds an
\* entry only for a new connection, under the counter's next value, which is
\* above every id given before; it removes an entry only for a connection
\* whose socket has closed, one at a time; the counter never decreases, and it
\* counts the connections accepted.
C25_RegistryInvariant == [][C25_Step]_vars

\* Three connections were accepted and the first has gone: the third got id 3,
\* not the id that became free, and the map holds the second and the third.
C25_Witness ==
    /\ clientIdCounter = 3
    /\ DOMAIN clients = {2, 3}
    /\ clients[3].name = DefaultName(3)
    /\ inbox[3] # <<>>
    /\ inbox[3][1] = [type |-> "welcome", clientId |-> 3, connectedClients |-> 2]

\* The client's 'close' event is event i of trace tr.
IsClientClose(e) == e.ev = "close" /\ e.h = "close"

====
